---------------------------- MODULE Spec2Model ----------------------------
(***************************************************************************)
(* A model of two scripts of pypsa-usa that share the pypsa network        *)
(* tables:                                                                 *)
(*   workflow/scripts/simplify_network.py   (transformer contraction and   *)
(*                                           busmap composition)           *)
(*   workflow/scripts/build_bus_regions.py  (region assembly per zone)     *)
(* A pandas Series is a function from its index to its values, a DataFrame *)
(* a function from its index to records, a list a sequence.                *)
(***************************************************************************)
EXTENDS Integers, Sequences, FiniteSets, TLC

VARIABLES
    \* ---- the network n (pypsa.Network), shared by both scripts
    buses,            \* n.buses: id -> [country, substation_lv, substation_off]
    lines,            \* n.lines: id -> [bus0, bus1]
    loads,            \* n.loads: id -> [bus]
    transformers,     \* n.transformers: sequence of [bus0, bus1] (row order)
    \* ---- simplify_network.py
    spc,              \* position of the script
    in_buses,         \* ids of the node table as read (before simplification)
    in_transformers,  \* the transformer table as read
    trafo_map,        \* the Series returned by simplify_network_to_voltage_level
    busmap_to_sub,    \* busmap_to_sub.sub_id: site id -> substation id
    busmaps,          \* the composed Series of line 137
    \* ---- build_bus_regions.py
    rpc,              \* position of the script
    use_ba,           \* snakemake.params.balancing_authorities["use"]
    countries,        \* snakemake.config['countries'] (a list)
    balancing_authorities, \* snakemake.config['BA_names'] (a list)
    country_shapes,   \* index of country_shapes: the names with an outline
    ba_region_shapes, \* index of ba_region_shapes
    offshore_shapes,  \* index of offshore_shapes, in file order
    zi,               \* position of the loop over countries / authorities
    oi,               \* position of the loop over offshore_shapes
    ba_locs,          \* the nodes selected for the authority in hand
    onshore_regions,  \* list of frames, a frame a set of rows
    offshore_regions, \* list of frames
    log,              \* records the logger has written
    error,            \* the exception that ended the run, "none" without one
    in_nodes,         \* ids of the node table as read by the script
    out_network,      \* snakemake.output.network, NotWritten until written
    out_onshore,      \* snakemake.output.regions_onshore
    out_offshore,     \* snakemake.output.regions_offshore
    offshore_cells,   \* the frames offshore_regions_c as built, before the
                      \* area filter, one per pass
    \* ---- simplify_network.py: what lines 129-145 work on
    generators,       \* n.generators: id -> row
    links,            \* n.links: id -> row
    in_lines,         \* n.lines as read from the input file
    substations,      \* the substation table read at line 131
    busmap_xy,        \* the columns x, y of busmap_to_sub, Unset until added
    use_ba_zones,     \* the configuration's by_balancing_areas (line 124)
    \* ---- build_bus_regions.py: one call of voronoi_partition_pts
    vpc,              \* position of the call
    points,           \* the coordinates passed in, a sequence of <<x, y>>
    outline,          \* the outline passed in, a rectangle
    vor,              \* the sites of the diagram: the points and the guards
    polygons,         \* the list of geometries built so far
    verror            \* the exception that ended the call, "none" without

netvars == <<buses, lines, loads, transformers>>
svars == <<spc, in_buses, in_transformers, trafo_map, busmap_to_sub, busmaps>>
cfgvars == <<use_ba, countries, balancing_authorities, country_shapes,
             ba_region_shapes, offshore_shapes, in_nodes>>
outvars == <<out_network, out_onshore, out_offshore>>
rvars == <<rpc, cfgvars, zi, oi, ba_locs, onshore_regions, offshore_regions,
           log, error, outvars,
          offshore_cells>>
vvars == <<vpc, points, outline, vor, polygons, verror>>
avars == <<generators, links, in_lines, substations, busmap_xy,
          use_ba_zones>>
vars == <<netvars, svars, rvars, vvars, avars>>

----------------------------------------------------------------------------
(* Bounds and universes *)

MaxTrafos == 3

BusIds == {"A", "B", "C", "D"}
SubIds == {"SUB1", "SUB2"}

\* The site -> substation table the bus2sub file is drawn from: the file
\* holds any subset of its rows.
SubTable == [b \in BusIds |-> IF b = "D" THEN "SUB2" ELSE "SUB1"]

\* An output file the script has not written
NotWritten == [written |-> FALSE]

\* pandas' missing value, and the two values of a boolean column (a column
\* that holds NaN beside them is of dtype object)
NaN == "NaN"
True == "True"
False == "False"
Bool == {True, False}

\* The value of a Series before the script has assigned it
Unset == [x \in {} |-> NaN]

\* Sequences over S of length at most n
SeqUpTo(S, n) == UNION {[1..k -> S] : k \in 0..n}

----------------------------------------------------------------------------
(* pandas helpers *)

\* Series.map(other): look every value up in other's index; a value that is
\* no key of other becomes NaN, the index is kept.
SeriesMap(x, y) ==
    [k \in DOMAIN x |-> IF x[k] \in DOMAIN y THEN y[x[k]] ELSE NaN]

\* The values of a Series
Values(m) == {m[k] : k \in DOMAIN m}

----------------------------------------------------------------------------
(* simplify_network.py: stage 1, lines 36-42 *)

\* pd.Series(bus1.values, index=bus0.values) with duplicated index entries
\* dropped, the first kept (lines 36-37)
TrafoFirst(ts) ==
    [b \in {ts[i].bus0 : i \in DOMAIN ts} |->
        ts[CHOOSE i \in DOMAIN ts :
              /\ ts[i].bus0 = b
              /\ \A j \in DOMAIN ts : ts[j].bus0 = b => i <= j].bus1]

\* ResolveOnce with lines 38-39 left out (a seeded fault)
ResolveNone(m) == m

\* Lines 38-39: every value that is itself a key is replaced by that key's
\* value in the map as it was before the assignment: one further hop.
ResolveOnce(m) ==
    [b \in DOMAIN m |-> IF m[b] \in DOMAIN m THEN m[m[b]] ELSE m[b]]

\* WithMissing with lines 40-42 left out (a seeded fault)
WithoutMissing(m, ids) == m

\* Lines 40-42: the nodes that are no key yet are appended, each mapped to
\* itself.
WithMissing(m, ids) ==
    [b \in (DOMAIN m) \cup ids |-> IF b \in DOMAIN m THEN m[b] ELSE b]

Stage1Map(ts, ids) == WithMissing(ResolveOnce(TrafoFirst(ts)), ids)

\* MapBus leaving every bus column as it was read (a seeded fault)
MapBusKeep(tm, b) == b

\* Lines 44-48: df[col].map(trafo_map) on every bus column
MapBus(tm, b) == IF b \in DOMAIN tm THEN tm[b] ELSE NaN

\* snakemake.config["electricity"]["voltage_simplified"] (line 123), in kV
VoltageLevel == 230

\* n.line_types.i_nom (line 30): the rated current of each standard line type
line_types == [T1 |-> [i_nom |-> 1], T2 |-> [i_nom |-> 2]]

\* Line 21: the distinct types of the lines at the nominal voltage
StandardTypes(ls, v) == {ls[l].type : l \in {k \in DOMAIN ls : ls[k].v_nom = v}}

\* Line 21: "(linetype,) = ..." raises ValueError unless exactly one value is
\* unpacked
UnpackRaises(ls, v) == Cardinality(StandardTypes(ls, v)) # 1

\* ScaleParallel with the ratio left unsquared (a seeded fault)
ScaleParallelLinear(np, v_old, v) == (np * v_old) \div v

\* Lines 23-25: num_parallel *= (v_nom / voltage_level) ** 2. The count is
\* held in hundredths of a circuit, so that the quotient is exact for the
\* voltages of the model.
ScaleParallel(np, v_old, v) == (np * v_old * v_old) \div (v * v)

\* Lines 28-33: sqrt(3) * i_nom of the line's type * v_nom of its bus0 *
\* num_parallel, in units of sqrt(3)/100 MVA
RatedPower(row, bs) ==
    IF row.type \in DOMAIN line_types /\ row.bus0 \in DOMAIN bs
    THEN line_types[row.type].i_nom * bs[row.bus0].v_nom * row.num_parallel
    ELSE NaN

\* Lines 22-33: the rows whose voltage differs get the scaled count, the
\* nominal voltage, the standard type and a rating computed afresh; the other
\* rows are left alone.
Harmonize(ls, bs, v) ==
    LET linetype == CHOOSE t \in StandardTypes(ls, v) : TRUE
        scaled == [l \in DOMAIN ls |->
                      IF ls[l].v_nom # v
                      THEN [ls[l] EXCEPT
                               !.num_parallel = ScaleParallel(@, ls[l].v_nom, v),
                               !.v_nom = v,
                               !.type = linetype]
                      ELSE ls[l]]
    IN  [l \in DOMAIN ls |->
            IF ls[l].v_nom # v
            THEN [scaled[l] EXCEPT !.s_nom = RatedPower(scaled[l], bs)]
            ELSE ls[l]]

\* Line 19: n.buses["v_nom"] = voltage_level
AtVoltage(bs, v) == [b \in DOMAIN bs |-> [bs[b] EXCEPT !.v_nom = v]]

\* Remaining with line 51 left out (a seeded fault)
RemainingAll(bs, tm) == bs

\* Line 51: n.mremove("Bus", n.buses.index.difference(trafo_map)); the nodes
\* that are a value of the map stay
Remaining(bs, tm) == [b \in (DOMAIN bs) \cap Values(tm) |-> bs[b]]

\* simplify_network_to_voltage_level, lines 16-53
SimplifyToVoltageLevel ==
    /\ spc = "start"
    /\ IF UnpackRaises(lines, VoltageLevel)
       THEN /\ spc' = "failed"
            /\ buses' = AtVoltage(buses, VoltageLevel)
            /\ UNCHANGED <<lines, loads, generators, links, transformers,
                           trafo_map>>
       ELSE LET tm == Stage1Map(transformers, DOMAIN buses)
                bs == AtVoltage(buses, VoltageLevel)
                hl == Harmonize(lines, bs, VoltageLevel)
            IN  /\ trafo_map' = tm
                /\ lines' = [l \in DOMAIN hl |->
                                [hl[l] EXCEPT !.bus0 = MapBus(tm, @),
                                              !.bus1 = MapBus(tm, @)]]
                /\ loads' = [l \in DOMAIN loads |->
                                [loads[l] EXCEPT !.bus = MapBus(tm, @)]]
                /\ generators' = [g \in DOMAIN generators |->
                                     [generators[g] EXCEPT !.bus = MapBus(tm, @)]]
                /\ links' = [k \in DOMAIN links |->
                                [links[k] EXCEPT !.bus0 = MapBus(tm, @),
                                                 !.bus1 = MapBus(tm, @)]]
                /\ transformers' = <<>>
                /\ buses' = Remaining(bs, tm)
                /\ spc' = "stage1"
    /\ UNCHANGED <<vvars, in_lines, substations, busmap_xy, use_ba_zones,
                   in_buses, in_transformers, busmap_to_sub, busmaps, rvars>>

\* __main__, lines 136-137: reduce(lambda x, y: x.map(y), ...) over the two
\* maps is trafo_map.map(busmap_to_sub.sub_id)
ComposeBusmaps ==
    /\ spc = "stage1"
    /\ busmaps' = SeriesMap(trafo_map, busmap_to_sub)
    /\ spc' = "composed"
    /\ UNCHANGED <<vvars, avars, netvars, in_buses, in_transformers,
                   trafo_map, busmap_to_sub, rvars>>

----------------------------------------------------------------------------
(* The network read by simplify_network.py *)

DefaultBus ==
    [country |-> "US", substation_lv |-> True, substation_off |-> True,
     v_nom |-> VoltageLevel]

\* One line per ordered pair of distinct nodes, one load per node
LinesOn(ids) ==
    [p \in {q \in ids \X ids : q[1] # q[2]} |->
        [bus0 |-> p[1], bus1 |-> p[2], v_nom |-> VoltageLevel,
         num_parallel |-> 100, type |-> "T1",
         s_nom |-> line_types.T1.i_nom * VoltageLevel * 100]]
LoadsOn(ids) == [b \in ids |-> [bus |-> b]]

TrafoRows(ids) == {r \in [bus0 : ids, bus1 : ids] : r.bus0 # r.bus1}

\* build_bus_regions.py does not run
RegionsIdle ==
    /\ rpc = "idle"
    /\ use_ba = FALSE
    /\ countries = <<>>
    /\ balancing_authorities = <<>>
    /\ country_shapes = {}
    /\ ba_region_shapes = {}
    /\ offshore_shapes = <<>>
    /\ zi = 1
    /\ oi = 1
    /\ ba_locs = {}
    /\ onshore_regions = <<>>
    /\ offshore_regions = <<>>
    /\ offshore_cells = <<>>
    /\ log = <<>>
    /\ error = "none"
    /\ in_nodes = {}
    /\ out_network = NotWritten
    /\ out_onshore = NotWritten
    /\ out_offshore = NotWritten

\* Lines 129-145 of simplify_network.py are not reached
AggregateIdle ==
    /\ generators = Unset
    /\ links = Unset
    /\ substations = Unset
    /\ busmap_xy = Unset
    /\ use_ba_zones = FALSE

\* voronoi_partition_pts is not being called on its own
NoDiagram == <<>>

VoronoiIdle ==
    /\ vpc = "idle"
    /\ points = <<>>
    /\ outline = [x0 |-> 0, x1 |-> 0, y0 |-> 0, y1 |-> 0]
    /\ vor = NoDiagram
    /\ polygons = <<>>
    /\ verror = "none"

InitSimplify ==
    /\ \E ids \in SUBSET BusIds :
        /\ ids # {}
        /\ buses = [b \in ids |-> DefaultBus]
        /\ lines = LinesOn(ids)
        /\ loads = LoadsOn(ids)
        /\ transformers \in SeqUpTo(TrafoRows(ids), MaxTrafos)
        /\ in_buses = ids
    /\ in_transformers = transformers
    /\ \E keys \in SUBSET BusIds : busmap_to_sub = [b \in keys |-> SubTable[b]]
    /\ trafo_map = Unset
    /\ busmaps = Unset
    /\ spc = "start"
    /\ in_lines = lines
    /\ AggregateIdle
    /\ RegionsIdle
    /\ VoronoiIdle

NextSimplify == SimplifyToVoltageLevel \/ ComposeBusmaps

SpecSimplify == InitSimplify /\ [][NextSimplify]_vars

----------------------------------------------------------------------------
(* A network whose lines differ in voltage, type, circuits and rating, read
   by simplify_network.py *)

MaxVLines == 2

Voltages == {VoltageLevel \div 2, VoltageLevel, 2 * VoltageLevel}

\* The rating of a line as read: that of its type at its own voltage, or a
\* measured value that has nothing to do with the type
LineRows ==
    {[bus0 |-> e[1], bus1 |-> e[2], v_nom |-> v, type |-> t,
      num_parallel |-> np,
      s_nom |-> IF typed THEN line_types[t].i_nom * v * np ELSE 40000] :
        <<e, v, t, np, typed>> \in
            {<<"A", "B">>} \X Voltages \X (DOMAIN line_types) \X {100, 200}
                \X BOOLEAN}

InitVoltage ==
    /\ buses = [b \in {"A", "B"} |->
                   [DefaultBus EXCEPT !.v_nom = IF b = "A" THEN 2 * VoltageLevel
                                                ELSE VoltageLevel]]
    /\ lines \in SeqUpTo(LineRows, MaxVLines)
    /\ loads = LoadsOn({"A", "B"})
    /\ transformers \in {<<>>, <<[bus0 |-> "A", bus1 |-> "B"]>>}
    /\ in_buses = {"A", "B"}
    /\ in_transformers = transformers
    /\ busmap_to_sub = [b \in {"A", "B"} |-> SubTable[b]]
    /\ trafo_map = Unset
    /\ busmaps = Unset
    /\ spc = "start"
    /\ in_lines = lines
    /\ AggregateIdle
    /\ RegionsIdle
    /\ VoronoiIdle

NextVoltage == SimplifyToVoltageLevel \/ ComposeBusmaps

SpecVoltage == InitVoltage /\ [][NextVoltage]_vars

----------------------------------------------------------------------------
(* build_bus_regions.py *)

MaxNodes == 2
MaxZones == 2

NodeIds == {"37584", "b1", "b2"}
CountryNames == {"US", "MX"}
BANames == {"CISO-SDGE", "BPA"}
OffshoreNames == {"OSW-N", "OSW-S"}

\* The zone every node carries before the authorities are assigned (the
\* literal of lines 210-212)
Placeholder == "US"

\* The hard-coded correction of line 186
HotfixId == "37584"
HotfixZone == "CISO-SDGE"

\* Areas in units of 1e-4: the threshold 1e-2 of lines 156 and 202 is 100
MinArea == 100
AreaValues == {1, 100, 101}

\* Sequences without repetition over S of length at most n
DistinctSeqs(S, n) ==
    {q \in SeqUpTo(S, n) : \A i, j \in DOMAIN q : q[i] = q[j] => i = j}

\* A configured list of zones names at least one zone
ZoneLists(S, n) == {q \in DistinctSeqs(S, n) : Len(q) > 0}

Range(q) == {q[i] : i \in DOMAIN q}

\* voronoi_partition_pts raises on an empty array of points: len(points) is
\* not 1, and np.amin over a zero-size axis (line 82) is a ValueError.
VoronoiRaises(pts) == Cardinality(pts) = 0

\* The rows of one GeoDataFrame of regions: one row per selected node
OnshoreFrame(sel, zone) == {[name |-> b, country |-> zone] : b \in sel}
OffshoreFrame(sel, zone, area) ==
    {[name |-> b, country |-> zone, area |-> area[b]] : b \in sel}

\* AreaFilter keeping a cell whose area equals the minimum (a seeded fault)
AreaFilterAtLeast(frame) == {r \in frame : r.area >= MinArea}

\* Lines 156 and 202: offshore_regions_c.loc[offshore_regions_c.area > 1e-2]
AreaFilter(frame) == {r \in frame : r.area > MinArea}

\* A boolean column holds NaN once a row was added by enlargement; masking
\* with it raises (ValueError: cannot mask with array containing NA values).
MaskRaises(col) == \E b \in DOMAIN buses : buses[b][col] = NaN
Masked(col) == {b \in DOMAIN buses : buses[b][col] = True}

\* n.buses.loc[ids, 'country'] = zone for ids that are rows of the table
SetCountry(bs, ids, zone) ==
    [b \in DOMAIN bs |-> IF b \in ids THEN [bs[b] EXCEPT !.country = zone]
                                       ELSE bs[b]]

\* Line 186: n.buses.loc['37584', 'country'] = 'CISO-SDGE'; .loc with a label
\* that is no row of the table adds the row, its other columns NaN.
Hotfix(bs) ==
    IF HotfixId \in DOMAIN bs
    THEN SetCountry(bs, {HotfixId}, HotfixZone)
    ELSE [b \in (DOMAIN bs) \cup {HotfixId} |->
            IF b = HotfixId
            THEN [country |-> HotfixZone, substation_lv |-> NaN,
                  substation_off |-> NaN]
            ELSE bs[b]]

Restrict(f, S) == [k \in S |-> f[k]]

\* The exceptions that end the run
KeyErrorShape == "KeyError: country_shapes[country]"
ValueErrorEmpty == "ValueError: zero-size array to reduction operation"
ValueErrorMask == "ValueError: cannot mask with array containing NA values"
ValueErrorConcat == "ValueError: No objects to concatenate"
BdbQuit == "BdbQuit"

Raise(e) == rpc' = "failed" /\ error' = e

\* Lines 120-132 / 160: the inputs are read and the mode is chosen
Begin ==
    /\ rpc = "start"
    /\ log' = Append(log, [level |-> "info", zone |-> "all"])
    /\ rpc' = IF ~use_ba THEN "country_loop" ELSE "ba_loop"
    /\ UNCHANGED <<vvars, avars, offshore_cells, netvars, svars, cfgvars, zi,
                   oi, ba_locs, onshore_regions, offshore_regions, error,
                   outvars>>

\* Lines 133-157: one pass of the loop over the countries
CountryIter ==
    /\ rpc = "country_loop"
    /\ LET country == countries[zi]
           c_b == {b \in DOMAIN buses : buses[b].country = country}
           onshore_locs == c_b \cap Masked("substation_lv")
           offshore_locs == c_b \cap Masked("substation_off")
           after == IF zi = Len(countries) THEN "export_network"
                                           ELSE "country_loop"
       IN  IF country \notin country_shapes
           THEN \* line 136
                /\ Raise(KeyErrorShape)
                /\ UNCHANGED <<zi, onshore_regions, offshore_regions, offshore_cells>>
           ELSE IF VoronoiRaises(onshore_locs)
           THEN \* inside line 142
                /\ Raise(ValueErrorEmpty)
                /\ UNCHANGED <<zi, onshore_regions, offshore_regions, offshore_cells>>
           ELSE /\ onshore_regions' =
                      Append(onshore_regions, OnshoreFrame(onshore_locs, country))
                /\ IF country \notin Range(offshore_shapes)
                   THEN /\ rpc' = after
                        /\ zi' = zi + 1
                        /\ UNCHANGED <<offshore_regions, offshore_cells, error>>
                   ELSE IF VoronoiRaises(offshore_locs)
                   THEN \* inside line 153
                        /\ Raise(ValueErrorEmpty)
                        /\ UNCHANGED <<zi, offshore_regions, offshore_cells>>
                   ELSE \E area \in [offshore_locs -> AreaValues] :
                        /\ offshore_cells' =
                              Append(offshore_cells,
                                     OffshoreFrame(offshore_locs, country,
                                                   area))
                        /\ offshore_regions' =
                              Append(offshore_regions,
                                     AreaFilter(OffshoreFrame(offshore_locs,
                                                              country, area)))
                        /\ rpc' = after
                        /\ zi' = zi + 1
                        /\ UNCHANGED error
    /\ UNCHANGED <<vvars, avars, netvars, svars, cfgvars, oi, ba_locs, log,
                   outvars>>

AfterBA(i) ==
    IF i < Len(balancing_authorities) THEN "ba_loop"
    ELSE IF Len(offshore_shapes) > 0 THEN "offshore_loop"
    ELSE "prune"

\* Lines 161-171: an authority without an outline is passed over; otherwise
\* its nodes are selected (onshore_shape.contains of every node with
\* substation_lv) and the debugger is entered.
BASelect ==
    /\ rpc = "ba_loop"
    /\ LET ba == balancing_authorities[zi] IN
        IF ba \notin ba_region_shapes
        THEN /\ rpc' = AfterBA(zi)
             /\ zi' = zi + 1
             /\ UNCHANGED <<ba_locs, error>>
        ELSE IF MaskRaises("substation_lv")
        THEN /\ Raise(ValueErrorMask)
             /\ UNCHANGED <<zi, ba_locs>>
        ELSE \E sel \in SUBSET Masked("substation_lv") :
             /\ ba_locs' = sel
             /\ rpc' = "pdb"
             /\ UNCHANGED <<zi, error>>
    /\ UNCHANGED <<vvars, avars, offshore_cells, netvars, svars, cfgvars, oi,
                   onshore_regions, offshore_regions, log, outvars>>

\* Line 171, pdb.set_trace(): the run waits for the debugger's input. The
\* command "continue" resumes it with lines 173-186.
PdbContinue ==
    /\ rpc = "pdb"
    /\ LET ba == balancing_authorities[zi] IN
        IF ba_locs = {}
        THEN UNCHANGED <<buses, onshore_regions>>
        ELSE /\ onshore_regions' =
                    Append(onshore_regions, OnshoreFrame(ba_locs, ba))
             /\ buses' = Hotfix(SetCountry(buses, ba_locs, ba))
    /\ rpc' = AfterBA(zi)
    /\ zi' = zi + 1
    /\ UNCHANGED <<vvars, avars, offshore_cells, lines, loads, transformers,
                   svars, cfgvars, oi, ba_locs, offshore_regions, log, error,
                   outvars>>

\* Line 171: "quit", or the end of the debugger's input, raises BdbQuit.
PdbQuit ==
    /\ rpc = "pdb"
    /\ Raise(BdbQuit)
    /\ UNCHANGED <<vvars, avars, offshore_cells, netvars, svars, cfgvars, zi,
                   oi, ba_locs, onshore_regions, offshore_regions, log,
                   outvars>>

\* Lines 190-204: one pass of the loop over the offshore outlines; the
\* selection is offshore_shape.buffer(0.2).contains of every node with
\* substation_off.
OffshoreIter ==
    /\ rpc = "offshore_loop"
    /\ LET shape_name == offshore_shapes[oi] IN
        IF MaskRaises("substation_off")
        THEN /\ Raise(ValueErrorMask)
             /\ UNCHANGED <<buses, oi, offshore_regions, offshore_cells>>
        ELSE \E offshore_busses \in SUBSET Masked("substation_off") :
             IF VoronoiRaises(offshore_busses)
             THEN /\ Raise(ValueErrorEmpty)
                  /\ UNCHANGED <<buses, oi, offshore_regions, offshore_cells>>
             ELSE \E area \in [offshore_busses -> AreaValues] :
                  /\ offshore_cells' =
                        Append(offshore_cells,
                               OffshoreFrame(offshore_busses, shape_name,
                                             area))
                  /\ offshore_regions' =
                        Append(offshore_regions,
                               AreaFilter(OffshoreFrame(offshore_busses,
                                                        shape_name, area)))
                  /\ buses' = SetCountry(buses, offshore_busses, shape_name)
                  /\ oi' = oi + 1
                  /\ rpc' = IF oi < Len(offshore_shapes) THEN "offshore_loop"
                                                         ELSE "prune"
                  /\ UNCHANGED error
    /\ UNCHANGED <<vvars, avars, lines, loads, transformers, svars, cfgvars,
                   zi, ba_locs, onshore_regions, log, outvars>>

\* Lines 210-212: the three mremove calls
Unassigned(bs) == {b \in DOMAIN bs : bs[b].country = Placeholder}

\* Line 210: the lines whose bus1 is an unassigned node
LinesToRemove(ls, gone) == {l \in DOMAIN ls : ls[l].bus1 \in gone}

\* Line 211: the loads whose bus is an unassigned node
LoadsToRemove(ld, gone) == {l \in DOMAIN ld : ld[l].bus \in gone}

Prune ==
    /\ rpc = "prune"
    /\ LET gone == Unassigned(buses) IN
        /\ lines' = Restrict(lines, (DOMAIN lines) \ LinesToRemove(lines, gone))
        /\ loads' = Restrict(loads, (DOMAIN loads) \ LoadsToRemove(loads, gone))
        /\ buses' = Restrict(buses, (DOMAIN buses) \ gone)
    /\ rpc' = "export_network"
    /\ UNCHANGED <<vvars, avars, offshore_cells, transformers, svars, cfgvars,
                   zi, oi, ba_locs, onshore_regions, offshore_regions, log,
                   error, outvars>>

\* pd.concat(frames, ignore_index=True): the rows of every frame, a row kept
\* once per frame it is in
Concat(frames) == UNION {{<<i, r>> : r \in frames[i]} : i \in DOMAIN frames}

\* Line 215
ExportNetwork ==
    /\ rpc = "export_network"
    /\ out_network' = [written |-> TRUE, buses |-> buses, lines |-> lines,
                       loads |-> loads]
    /\ rpc' = "export_onshore"
    /\ UNCHANGED <<vvars, avars, offshore_cells, netvars, svars, cfgvars, zi,
                   oi, ba_locs, onshore_regions, offshore_regions, log, error,
                   out_onshore, out_offshore>>

\* Line 220: pd.concat of an empty list raises (ValueError: No objects to
\* concatenate)
ExportOnshore ==
    /\ rpc = "export_onshore"
    /\ IF Len(onshore_regions) = 0
       THEN /\ Raise(ValueErrorConcat)
            /\ UNCHANGED out_onshore
       ELSE /\ out_onshore' = [written |-> TRUE, kind |-> "regions",
                               rows |-> Concat(onshore_regions)]
            /\ rpc' = "export_offshore"
            /\ UNCHANGED error
    /\ UNCHANGED <<vvars, avars, offshore_cells, netvars, svars, cfgvars, zi,
                   oi, ba_locs, onshore_regions, offshore_regions, log,
                   out_network, out_offshore>>

\* Lines 221-224: the list is tested, not the rows of its frames
ExportOffshore ==
    /\ rpc = "export_offshore"
    /\ out_offshore' =
          IF Len(offshore_regions) > 0
          THEN [written |-> TRUE, kind |-> "regions",
                rows |-> Concat(offshore_regions)]
          ELSE [written |-> TRUE, kind |-> "outlines",
                rows |-> Range(offshore_shapes)]
    /\ rpc' = "done"
    /\ UNCHANGED <<vvars, avars, offshore_cells, netvars, svars, cfgvars, zi,
                   oi, ba_locs, onshore_regions, offshore_regions, log, error,
                   out_network, out_onshore>>

\* simplify_network.py does not run
SimplifyIdle ==
    /\ spc = "idle"
    /\ in_buses = {}
    /\ in_transformers = <<>>
    /\ trafo_map = Unset
    /\ busmap_to_sub = Unset
    /\ busmaps = Unset
    /\ in_lines = Unset
    /\ AggregateIdle

NodeRows(zonesOf) ==
    [country : zonesOf, substation_lv : Bool, substation_off : Bool]

InitRegions ==
    /\ use_ba \in BOOLEAN
    /\ \E ids \in SUBSET NodeIds :
        /\ Cardinality(ids) \in 1..MaxNodes
        /\ in_nodes = ids
        /\ buses \in [ids -> NodeRows(IF use_ba THEN {Placeholder}
                                                 ELSE CountryNames)]
        /\ lines = LinesOn(ids)
        /\ loads = LoadsOn(ids)
    /\ transformers = <<>>
    /\ IF use_ba
       THEN /\ countries = <<>>
            /\ country_shapes = {}
            /\ balancing_authorities \in ZoneLists(BANames, MaxZones)
            /\ ba_region_shapes \in SUBSET BANames
            /\ offshore_shapes \in DistinctSeqs(OffshoreNames, MaxZones)
       ELSE /\ countries \in ZoneLists(CountryNames, MaxZones)
            /\ country_shapes \in SUBSET CountryNames
            /\ balancing_authorities = <<>>
            /\ ba_region_shapes = {}
            /\ offshore_shapes \in DistinctSeqs(CountryNames, MaxZones)
    /\ zi = 1
    /\ oi = 1
    /\ ba_locs = {}
    /\ onshore_regions = <<>>
    /\ offshore_regions = <<>>
    /\ offshore_cells = <<>>
    /\ log = <<>>
    /\ error = "none"
    /\ out_network = NotWritten
    /\ out_onshore = NotWritten
    /\ out_offshore = NotWritten
    /\ rpc = "start"
    /\ SimplifyIdle
    /\ VoronoiIdle

NextRegions ==
    \/ Begin
    \/ CountryIter
    \/ BASelect
    \/ PdbContinue
    \/ PdbQuit
    \/ OffshoreIter
    \/ Prune
    \/ ExportNetwork
    \/ ExportOnshore
    \/ ExportOffshore

SpecRegions == InitRegions /\ [][NextRegions]_vars

----------------------------------------------------------------------------
(* build_bus_regions.py: voronoi_partition_pts, lines 63-107 *)

\* At most MaxPoints coordinates are passed in
MaxPoints == 2

\* Geometries are the sets of the lattice points they hold, inside the
\* window -Half .. Half on both axes; the area of a geometry is the number
\* of unit squares of the lattice that lie in it.
Half == 5
Samples == (-Half .. Half) \X (-Half .. Half)

\* The coordinates and the rectangular outlines a call is made with
PointCoords == {0, 1, 2} \X {0, 1}
Outlines == [x0 : {-5, 1}, x1 : {2, 5}, y0 : {-5, 0}, y1 : {1, 5}]

\* The polygon of an outline
Geom(o) ==
    {s \in Samples : o.x0 <= s[1] /\ s[1] <= o.x1 /\ o.y0 <= s[2] /\ s[2] <= o.y1}

Area(g) ==
    Cardinality({s \in g : /\ <<s[1] + 1, s[2]>> \in g
                           /\ <<s[1], s[2] + 1>> \in g
                           /\ <<s[1] + 1, s[2] + 1>> \in g})

Min(S) == CHOOSE m \in S : \A x \in S : m <= x
Max(S) == CHOOSE m \in S : \A x \in S : m >= x

\* Lines 90-93: the guards lie GuardFactor spans outside the bounding box
GuardFactor == 3

\* Lines 82-93: the four corners of the rectangle framing the points
Guards(pts) ==
    LET xs == {pts[i][1] : i \in DOMAIN pts}
        ys == {pts[i][2] : i \in DOMAIN pts}
        xmin == Min(xs)
        ymin == Min(ys)
        xmax == Max(xs)
        ymax == Max(ys)
        xspan == xmax - xmin
        yspan == ymax - ymin
    IN  << <<xmin - GuardFactor * xspan, ymin - GuardFactor * yspan>>,
           <<xmin - GuardFactor * xspan, ymax + GuardFactor * yspan>>,
           <<xmax + GuardFactor * xspan, ymin - GuardFactor * yspan>>,
           <<xmax + GuardFactor * xspan, ymax + GuardFactor * yspan>> >>

\* Line 89: Voronoi(...) hands the sites to Qhull, which raises when they
\* span no area: the initial simplex is flat when every site lies on one
\* line.
QhullRaises(sites) ==
    \A i, j, k \in DOMAIN sites :
        (sites[j][1] - sites[i][1]) * (sites[k][2] - sites[i][2])
            = (sites[k][1] - sites[i][1]) * (sites[j][2] - sites[i][2])

\* The squared distance of two positions
D2(a, b) == (a[1] - b[1]) * (a[1] - b[1]) + (a[2] - b[2]) * (a[2] - b[2])

\* Line 97: the region of site i in the diagram of all sites, the positions
\* no site is nearer to (a convex polygon, so line 99 leaves it as it is)
Cell(sites, i) ==
    {s \in Samples : \A j \in DOMAIN sites : D2(s, sites[i]) <= D2(s, sites[j])}

\* OnePoint returning the outline only around a coordinate that lies in it
\* (a seeded fault)
OnePointInside(pts, o) == IF pts[1] \in Geom(o) THEN <<Geom(o)>> ELSE << {} >>

\* Lines 79-80: a single coordinate gets the outline
OnePoint(pts, o) == <<Geom(o)>>

QhullError == "QhullError: initial simplex is flat"

\* Lines 77-93: up to the diagram
VoronoiCall ==
    /\ vpc = "call"
    /\ IF Len(points) = 1
       THEN /\ polygons' = OnePoint(points, outline)
            /\ vpc' = "return"
            /\ UNCHANGED <<vor, verror>>
       ELSE IF Len(points) = 0
       THEN /\ vpc' = "failed"
            /\ verror' = ValueErrorEmpty
            /\ UNCHANGED <<vor, polygons>>
       ELSE LET sites == points \o Guards(points) IN
            IF QhullRaises(sites)
            THEN /\ vpc' = "failed"
                 /\ verror' = QhullError
                 /\ UNCHANGED <<vor, polygons>>
            ELSE /\ vor' = sites
                 /\ polygons' = <<>>
                 /\ vpc' = "loop"
                 /\ UNCHANGED verror
    /\ UNCHANGED <<points, outline, netvars, avars, svars, rvars>>

\* Lines 96-104: one pass of the loop over the input coordinates
VoronoiLoop ==
    /\ vpc = "loop"
    /\ LET i == Len(polygons) + 1 IN
        /\ polygons' = Append(polygons, Cell(vor, i) \cap Geom(outline))
        /\ vpc' = IF i = Len(points) THEN "return" ELSE "loop"
    /\ UNCHANGED <<points, outline, vor, verror, netvars, avars, svars,
                   rvars>>

\* Line 107
VoronoiReturn ==
    /\ vpc = "return"
    /\ vpc' = "returned"
    /\ UNCHANGED <<points, outline, vor, polygons, verror, netvars, avars,
                   svars, rvars>>

\* No network is loaded
NetworkIdle ==
    /\ buses = Unset
    /\ lines = Unset
    /\ loads = Unset
    /\ transformers = <<>>

InitVoronoi ==
    /\ points \in DistinctSeqs(PointCoords, MaxPoints)
    /\ outline \in Outlines
    /\ vor = NoDiagram
    /\ polygons = <<>>
    /\ verror = "none"
    /\ vpc = "call"
    /\ NetworkIdle
    /\ SimplifyIdle
    /\ RegionsIdle

NextVoronoi == VoronoiCall \/ VoronoiLoop \/ VoronoiReturn

SpecVoronoi == InitVoronoi /\ [][NextVoronoi]_vars

----------------------------------------------------------------------------
(* simplify_network.py: assign_line_lengths (lines 98-117) and
   aggregate_to_substations (lines 56-95), as __main__ calls them *)

\* At most MaxLines lines are read
MaxLines == 2

AggSubIds == {"SUB1", "SUB2", "SUB3"}

\* The order of the rows of n.buses, and the order of the substation ids as
\* strings
BusOrder == <<"A", "B", "C", "D">>
SubOrder == <<"SUB1", "SUB2", "SUB3">>
BusRank(b) == CHOOSE i \in DOMAIN BusOrder : BusOrder[i] = b
SubRank(t) == CHOOSE i \in DOMAIN SubOrder : SubOrder[i] = t

\* The substation file of line 131: index sub_id, columns lon, lat and
\* interconnect
SubstationTable ==
    [t \in AggSubIds |->
        [lon |-> -130 + 10 * SubRank(t),
         lat |-> 30 + 5 * SubRank(t),
         interconnect |-> CASE t = "SUB1" -> "Western"
                            [] t = "SUB2" -> "Texas"
                            [] OTHER -> "Eastern"]]

\* The value of one cell of a table, NaN where the table has no such row or
\* no such column
Column(tbl, k, col) ==
    IF k \in DOMAIN tbl
    THEN IF col \in DOMAIN tbl[k] THEN tbl[k][col] ELSE NaN
    ELSE NaN

\* pypsa.geo.haversine_pts(a, b) times a factor: the great-circle distance
\* is kept as a term over the two positions, the factor in hundredths
Length(a, b, f) == [haversine_pts |-> {a, b}, times |-> f]

\* Line 142: assign_line_lengths(n, 1.25, ...); line 64: line_length_factor=1.0
LengthFactor == 125
ClusterLengthFactor == 100

\* XY with the two coordinates exchanged (a seeded fault)
YX(bs, b) == <<bs[b].y, bs[b].x>>

\* Lines 107-108: n.buses.loc[...][["x", "y"]]
XY(bs, b) == <<bs[b].x, bs[b].y>>

\* assign_line_lengths, lines 98-117, as called at line 142, and line 143.
\* busmap_to_sub is the frame the caller passed: lines 101-102 add the
\* columns x and y to it.
AssignLineLengths ==
    /\ spc = "composed"
    /\ LET xy == [b \in DOMAIN busmap_to_sub |->
                    [x |-> Column(substations, busmap_to_sub[b], "lon"),
                     y |-> Column(substations, busmap_to_sub[b], "lat")]]
           bs == [b \in DOMAIN buses |->
                    [buses[b] EXCEPT !.x = Column(xy, b, "x"),
                                     !.y = Column(xy, b, "y")]]
       IN  /\ busmap_xy' = xy
           /\ buses' = bs
           /\ lines' = [l \in DOMAIN lines |->
                          [lines[l] EXCEPT
                              !.length = Length(XY(bs, lines[l].bus0),
                                                XY(bs, lines[l].bus1),
                                                LengthFactor)]]
           /\ links' = [k \in DOMAIN links |->
                          [links[k] EXCEPT
                              !.length = Length(XY(bs, links[k].bus0),
                                                XY(bs, links[k].bus1),
                                                LengthFactor),
                              !.underwater_fraction = 0]]
    /\ spc' = "lengths"
    /\ UNCHANGED <<loads, transformers, generators, in_lines, substations,
                   use_ba_zones, in_buses, in_transformers, trafo_map,
                   busmap_to_sub, busmaps, rvars, vvars>>

RECURSIVE Sum(_, _)
\* The sum of f over the keys in S
Sum(f, S) ==
    IF S = {} THEN 0
    ELSE LET k == CHOOSE k \in S : TRUE IN f[k] + Sum(f, S \ {k})

\* One aggregation rule applied to the column f of the rows S
Agg(rule, f, S) ==
    CASE rule = "sum" -> Sum(f, S)
      [] rule = "max" -> Max({f[k] : k \in S})
      [] rule = "mean" -> Sum(f, S) \div Cardinality(S)

\* GeneratorStrategies with p_nom_min merged by np.max (a seeded fault)
GeneratorStrategiesMax ==
    [marginal_cost |-> "mean", p_nom_min |-> "max", p_min_pu |-> "mean",
     p_max_pu |-> "mean", ramp_limit_up |-> "max", ramp_limit_down |-> "max"]

\* Lines 67-74: generator_strategies
GeneratorStrategies ==
    [marginal_cost |-> "mean", p_nom_min |-> "sum", p_min_pu |-> "mean",
     p_max_pu |-> "mean", ramp_limit_up |-> "max", ramp_limit_down |-> "max"]

\* Line 60: the rules get_clustering_from_busmap uses where the caller names
\* none
DefaultStrategies == [p_nom |-> "sum", x |-> "mean", y |-> "mean"]

\* AllLines: InterLines keeping the lines inside one cluster (a seeded fault)
AllLines(ls, bm) == DOMAIN ls

\* Line 60, get_clustering_from_busmap: only the lines between two different
\* clusters are kept
InterLines(ls, bm) ==
    {l \in DOMAIN ls : MapBus(bm, ls[l].bus0) # MapBus(bm, ls[l].bus1)}

\* AsGiven: Oriented keeping each line's own direction (a seeded fault)
AsGiven(a, b) == <<a, b>>

\* Line 60: both directions between two clusters count as one pair, the
\* smaller id first
Oriented(a, b) == IF SubRank(a) < SubRank(b) THEN <<a, b>> ELSE <<b, a>>

Target(ls, bm, l) == Oriented(MapBus(bm, ls[l].bus0), MapBus(bm, ls[l].bus1))

\* Line 60: the members of a cluster
Members(bs, bm, t) == {b \in DOMAIN bs : MapBus(bm, b) = t}

\* Line 60: the position of a cluster before lines 88-89 overwrite it
ClusterXY(bs, bm, t) ==
    LET m == Members(bs, bm, t) IN
    <<Agg(DefaultStrategies.x, [b \in m |-> bs[b].x], m),
      Agg(DefaultStrategies.y, [b \in m |-> bs[b].y], m)>>

\* Lines 60-75 and 93: one line per pair of clusters
ClusterLines(ls, bs, bm) ==
    LET inter == InterLines(ls, bm)
        pairs == {Target(ls, bm, l) : l \in inter}
    IN  [p \in pairs |->
            LET grp == {l \in inter : Target(ls, bm, l) = p} IN
            [bus0 |-> p[1],
             bus1 |-> p[2],
             s_nom |-> Agg("sum", [l \in grp |-> ls[l].s_nom], grp),
             num_parallel |->
                 Agg("sum", [l \in grp |-> ls[l].num_parallel], grp),
             v_nom |-> LET m == Members(bs, bm, p[1]) IN
                       Agg("max", [b \in m |-> bs[b].v_nom], m),
             length |-> Length(ClusterXY(bs, bm, p[1]), ClusterXY(bs, bm, p[2]),
                               ClusterLengthFactor),
             type |-> NaN]]

\* Lines 60-75: one generator per cluster and carrier
ClusterGenerators(gs, bm) ==
    LET keys == {<<MapBus(bm, gs[g].bus), gs[g].carrier>> : g \in DOMAIN gs}
    IN  [k \in keys |->
            LET grp == {g \in DOMAIN gs : /\ MapBus(bm, gs[g].bus) = k[1]
                                          /\ gs[g].carrier = k[2]}
            IN  [bus |-> k[1],
                 carrier |-> k[2],
                 p_nom |-> Agg(DefaultStrategies.p_nom,
                               [g \in grp |-> gs[g].p_nom], grp),
                 p_nom_min |-> Agg(GeneratorStrategies.p_nom_min,
                                   [g \in grp |-> gs[g].p_nom_min], grp),
                 marginal_cost |->
                     Agg(GeneratorStrategies.marginal_cost,
                         [g \in grp |-> gs[g].marginal_cost], grp),
                 p_min_pu |-> Agg(GeneratorStrategies.p_min_pu,
                                  [g \in grp |-> gs[g].p_min_pu], grp),
                 p_max_pu |-> Agg(GeneratorStrategies.p_max_pu,
                                  [g \in grp |-> gs[g].p_max_pu], grp),
                 ramp_limit_up |->
                     Agg(GeneratorStrategies.ramp_limit_up,
                         [g \in grp |-> gs[g].ramp_limit_up], grp),
                 ramp_limit_down |->
                     Agg(GeneratorStrategies.ramp_limit_down,
                         [g \in grp |-> gs[g].ramp_limit_down], grp)]]

\* A length of zero
NoLength == [haversine_pts |-> {}, times |-> 0]

\* Lines 60-75: a link keeps its row, is moved to the clusters of its two
\* ends and is dropped when they are one; a length above zero is computed
\* anew, any other becomes zero
ClusterLinks(ks, bs, bm) ==
    LET kept == {k \in DOMAIN ks :
                    MapBus(bm, ks[k].bus0) # MapBus(bm, ks[k].bus1)}
    IN  [k \in kept |->
            [ks[k] EXCEPT
                !.bus0 = MapBus(bm, @),
                !.bus1 = MapBus(bm, @),
                !.length =
                    IF Cardinality(@.haversine_pts) = 2
                    THEN Length(ClusterXY(bs, bm, MapBus(bm, ks[k].bus0)),
                                ClusterXY(bs, bm, MapBus(bm, ks[k].bus1)),
                                ClusterLengthFactor)
                    ELSE NoLength]]

\* Lines 60-75: aggregate_one_ports, one load per cluster
ClusterLoads(ld, bm) ==
    [t \in {MapBus(bm, ld[l].bus) : l \in DOMAIN ld} |-> [bus |-> t]]

\* Lines 76-78: dict(zip(sub_index, countries)) over the nodes before
\* clustering; a later node overwrites an earlier one of the same substation
CountriesDict(bs, bm) ==
    [t \in {MapBus(bm, b) : b \in DOMAIN bs} |->
        bs[CHOOSE b \in Members(bs, bm, t) :
              \A c \in Members(bs, bm, t) : BusRank(c) <= BusRank(b)].country]

\* Line 79: substations['ba'] = substations.index.map(countries_dict)
WithBa(tbl, dict) ==
    [t \in DOMAIN tbl |->
        [c \in (DOMAIN tbl[t]) \cup {"ba"} |->
            IF c = "ba" THEN (IF t \in DOMAIN dict THEN dict[t] ELSE NaN)
            ELSE tbl[t][c]]]

\* Line 83
DefaultZone == "US"

\* TargetBus with lon and lat exchanged (a seeded fault)
TargetBusSwapped(tbl, t, by_ba) ==
    [interconnect |-> Column(tbl, t, "interconnect"),
     x |-> Column(tbl, t, "lat"),
     y |-> Column(tbl, t, "lon"),
     substation_lv |-> True,
     substation_off |-> True,
     country |-> IF by_ba THEN Column(tbl, t, "ba") ELSE DefaultZone]

\* Lines 80-92: the columns the clustered node t is given
TargetBus(tbl, t, by_ba) ==
    [interconnect |-> Column(tbl, t, "interconnect"),
     x |-> Column(tbl, t, "lon"),
     y |-> Column(tbl, t, "lat"),
     substation_lv |-> True,
     substation_off |-> True,
     country |-> IF by_ba THEN Column(tbl, t, "ba") ELSE DefaultZone]

\* aggregate_to_substations, lines 56-95, called at line 145 with
\* busmap_to_sub.sub_id; n becomes the clustered network
Aggregate ==
    /\ spc = "lengths"
    /\ LET bm == busmap_to_sub
           tbl == WithBa(substations, CountriesDict(buses, bm))
       IN  /\ substations' = tbl
           /\ buses' = [t \in {MapBus(bm, b) : b \in DOMAIN buses} |->
                           TargetBus(tbl, t, use_ba_zones)]
           /\ lines' = ClusterLines(lines, buses, bm)
           /\ generators' = ClusterGenerators(generators, bm)
           /\ loads' = ClusterLoads(loads, bm)
           /\ links' = ClusterLinks(links, buses, bm)
    /\ spc' = "aggregated"
    /\ UNCHANGED <<transformers, in_lines, busmap_xy, use_ba_zones, in_buses,
                   in_transformers, trafo_map, busmap_to_sub, busmaps, rvars,
                   vvars>>

\* The network and the tables of a run of lines 126-145: every node has a
\* row in the bus-to-substation file and every substation a row in the
\* substation file
BusZone(b) ==
    CASE b = "A" -> "CISO" [] b = "B" -> "BPA" [] b = "C" -> "CISO"
      [] OTHER -> "ERCO"

BusesRead ==
    [b \in BusIds |->
        [country |-> BusZone(b),
         substation_lv |-> IF b \in {"A", "C"} THEN True ELSE False,
         substation_off |-> False,
         x |-> BusRank(b),
         y |-> -BusRank(b),
         v_nom |-> IF b = "A" THEN 2 * VoltageLevel ELSE VoltageLevel]]

LinesRead(q) ==
    [i \in DOMAIN q |->
        [bus0 |-> q[i].bus0, bus1 |-> q[i].bus1, s_nom |-> 50 * (i + 1),
         length |-> NaN, v_nom |-> VoltageLevel, num_parallel |-> 100,
         type |-> "T1"]]

GeneratorsRead ==
    [b \in BusIds |->
        [bus |-> b,
         carrier |-> IF b = "C" THEN "wind" ELSE "gas",
         p_nom |-> 10 * BusRank(b),
         p_nom_min |-> BusRank(b),
         marginal_cost |-> 12 * BusRank(b),
         p_min_pu |-> 6 * BusRank(b),
         p_max_pu |-> 100 - 6 * BusRank(b),
         ramp_limit_up |-> 30 * BusRank(b),
         ramp_limit_down |-> 60 - 6 * BusRank(b)]]

\* One link, from B to D
LinksRead ==
    [k \in {"LK1"} |->
        [bus0 |-> "B", bus1 |-> "D", length |-> NoLength,
         underwater_fraction |-> NaN]]

AggTrafoTables ==
    { <<>>,
      <<[bus0 |-> "A", bus1 |-> "B"]>>,
      <<[bus0 |-> "A", bus1 |-> "B"], [bus0 |-> "B", bus1 |-> "C"]>> }

SubTables == {t \in [BusIds -> AggSubIds] : t["A"] = "SUB1"}

InitAggregate ==
    /\ buses = BusesRead
    /\ lines \in {LinesRead(q) : q \in SeqUpTo(TrafoRows(BusIds), MaxLines)}
    /\ in_lines = lines
    /\ loads = LoadsOn(BusIds)
    /\ generators = GeneratorsRead
    /\ links = LinksRead
    /\ transformers \in AggTrafoTables
    /\ in_buses = BusIds
    /\ in_transformers = transformers
    /\ busmap_to_sub \in SubTables
    /\ substations = SubstationTable
    /\ busmap_xy = Unset
    /\ use_ba_zones \in BOOLEAN
    /\ trafo_map = Unset
    /\ busmaps = Unset
    /\ spc = "start"
    /\ RegionsIdle
    /\ VoronoiIdle

NextAggregate ==
    \/ SimplifyToVoltageLevel
    \/ ComposeBusmaps
    \/ AssignLineLengths
    \/ Aggregate

SpecAggregate == InitAggregate /\ [][NextAggregate]_vars

----------------------------------------------------------------------------
(* Claims about simplify_network.py, checked under SpecSimplify *)

Row(a, b) == [bus0 |-> a, bus1 |-> b]

\* simplify_network_to_voltage_level has returned
Stage1Returned == spc \in {"stage1", "composed", "lengths", "aggregated"}

\* C1: after stage 1 the returned map is transitively closed: for every node
\* b of the input network, trafo_map[trafo_map[b]] = trafo_map[b].
C1_TransitivelyClosed ==
    Stage1Returned =>
        \A b \in in_buses : MapBus(trafo_map, trafo_map[b]) = trafo_map[b]

\* C2: stage 1 maps both endpoints of every transformer of the input network
\* to the same node.
C2_EndpointsMerge ==
    Stage1Returned =>
        \A i \in DOMAIN in_transformers :
            trafo_map[in_transformers[i].bus0] = trafo_map[in_transformers[i].bus1]

HasTransformer(b) ==
    \E i \in DOMAIN in_transformers :
        b \in {in_transformers[i].bus0, in_transformers[i].bus1}

C4_BusmapTotal ==
    /\ Stage1Returned =>
        /\ in_buses \subseteq DOMAIN trafo_map
        /\ \A b \in in_buses : ~HasTransformer(b) => trafo_map[b] = b
    /\ spc = "composed" => in_buses \subseteq DOMAIN busmaps

C4_Witness ==
    /\ spc = "composed"
    /\ in_transformers # <<>>
    /\ \E b \in in_buses : ~HasTransformer(b) /\ trafo_map[b] = b

\* C5: Scenario B: nodes A, B, C with transformers A-B and B-C, the chain
\* A -> B -> C: stage 1 yields {A:C, B:C, C:C}; with stage 2 = {C: SUB1} the
\* composed map is {A:SUB1, B:SUB1, C:SUB1}.
ScenarioB ==
    /\ in_buses = {"A", "B", "C"}
    /\ in_transformers \in {<<Row("A", "B"), Row("B", "C")>>,
                            <<Row("B", "C"), Row("A", "B")>>}
    /\ busmap_to_sub = [b \in {"C"} |-> "SUB1"]

C5_ScenarioB ==
    ScenarioB =>
        /\ Stage1Returned => trafo_map = [b \in {"A", "B", "C"} |-> "C"]
        /\ spc = "composed" => busmaps = [b \in {"A", "B", "C"} |-> "SUB1"]

C5_Witness == ScenarioB /\ spc = "composed"

\* C27: after simplify_network_to_voltage_level has returned, the remaining
\* nodes are exactly the values of the returned map, no transformer remains,
\* and every bus reference of every remaining line, link, load and generator
\* names a remaining node.
C27_NetworkConsistent ==
    spc \in {"stage1", "composed"} =>
        /\ DOMAIN buses = Values(trafo_map)
        /\ transformers = <<>>
        /\ \A l \in DOMAIN lines :
              lines[l].bus0 \in DOMAIN buses /\ lines[l].bus1 \in DOMAIN buses
        /\ \A k \in DOMAIN links :
              links[k].bus0 \in DOMAIN buses /\ links[k].bus1 \in DOMAIN buses
        /\ \A l \in DOMAIN loads : loads[l].bus \in DOMAIN buses
        /\ \A g \in DOMAIN generators : generators[g].bus \in DOMAIN buses

\* Stage 1 has removed transformers and nodes, and lines and loads were
\* moved to remaining nodes
C27_Witness ==
    /\ spc = "stage1"
    /\ in_transformers # <<>>
    /\ DOMAIN buses # in_buses
    /\ \E l \in DOMAIN lines : lines[l].bus0 # in_lines[l].bus0
    /\ \E b \in DOMAIN loads : loads[b].bus # b

----------------------------------------------------------------------------
(* Claims about build_bus_regions.py, checked under SpecRegions *)

Pruned == use_ba /\ rpc \in {"export_network", "export_onshore",
                             "export_offshore", "done"}

\* C6: in authority mode, after the unassigned nodes are pruned, every
\* remaining line has both bus0 and bus1 among the remaining nodes and every
\* remaining load has its bus among the remaining nodes.
C6_NoDanglingReference ==
    Pruned =>
        /\ \A l \in DOMAIN lines :
              lines[l].bus0 \in DOMAIN buses /\ lines[l].bus1 \in DOMAIN buses
        /\ \A l \in DOMAIN loads : loads[l].bus \in DOMAIN buses

\* The number of regions a node owns in the two region outputs
RegionsOwned(b) ==
    Cardinality({x \in out_onshore.rows : x[2].name = b})
    + (IF out_offshore.kind = "regions"
       THEN Cardinality({x \in out_offshore.rows : x[2].name = b})
       ELSE 0)

\* C7: in authority mode, after onshore assignment, offshore assignment and
\* pruning, every node remaining in the network owns exactly one region in
\* the union of the onshore and offshore region outputs.
C7_ExactlyOneRegion ==
    (use_ba /\ rpc = "done") =>
        \A b \in DOMAIN out_network.buses : RegionsOwned(b) = 1

\* C8: an empty selection of nodes for a zone never makes the run fail: no
\* run ends with the error voronoi_partition_pts raises on an empty array.
C8_EmptySelectionNotFatal ==
    error # ValueErrorEmpty

\* The configured zones the loop has passed that have no outline
PassedWithoutOutline ==
    IF use_ba
    THEN {balancing_authorities[i] : i \in
            {j \in 1..(zi - 1) : balancing_authorities[j] \notin ba_region_shapes}}
    ELSE {countries[i] : i \in
            {j \in 1..(zi - 1) : countries[j] \notin country_shapes}}

\* C9: a configured zone that has no matching outline is skipped with a
\* warning logged for it, and the run goes on instead of failing.
C9_MissingOutlineSkippedWithWarning ==
    /\ error # KeyErrorShape
    /\ \A z \in PassedWithoutOutline :
          \E i \in DOMAIN log : log[i] = [level |-> "warning", zone |-> z]

\* C10: if region assembly fails, none of its outputs has been written.
C10_NoOutputOnFailure ==
    rpc = "failed" =>
        ~out_network.written /\ ~out_onshore.written /\ ~out_offshore.written

\* The rows of the offshore output file that are regions
OffshoreOutput ==
    IF out_offshore.written /\ out_offshore.kind = "regions"
    THEN out_offshore.rows
    ELSE {}

\* C15: an offshore cell is kept in the offshore region output exactly when
\* its area is above the fixed minimum of 1e-2, in country mode and in
\* authority mode alike; a cell of area 0.0001 is dropped.
C15_KeptIffAboveMinArea ==
    /\ \A i \in DOMAIN offshore_cells :
          \A c \in offshore_cells[i] :
              c \in offshore_regions[i] <=> c.area > MinArea
    /\ rpc = "done" =>
          \A c \in Concat(offshore_cells) :
              c \in OffshoreOutput <=> c[2].area > MinArea

\* A run in country mode has written a region file that holds one cell and
\* has dropped another of area 0.0001 (1 in the model's units)
C15_Witness ==
    /\ rpc = "done"
    /\ ~use_ba
    /\ \E c \in Concat(offshore_cells) : c[2].area = 1 /\ c \notin OffshoreOutput
    /\ \E c \in Concat(offshore_cells) : c \in OffshoreOutput

\* C16: whenever the run produces no offshore region (no cell survives in
\* any zone, all of them dropped by the area filter included), the offshore
\* output file holds the raw offshore outlines unchanged; otherwise it holds
\* the surviving regions.
C16_OutlinesWhenNoRegion ==
    rpc = "done" =>
        out_offshore =
            IF Concat(offshore_regions) = {}
            THEN [written |-> TRUE, kind |-> "outlines",
                  rows |-> Range(offshore_shapes)]
            ELSE [written |-> TRUE, kind |-> "regions",
                  rows |-> Concat(offshore_regions)]

----------------------------------------------------------------------------
(* Claims about aggregate_to_substations, checked under SpecAggregate *)

\* The step aggregate_to_substations takes
AggregateStep == spc = "lengths" /\ spc' = "aggregated"

\* The two clusters a line of the network before clustering ends on
Ends(l) ==
    {MapBus(busmap_to_sub, lines[l].bus0), MapBus(busmap_to_sub, lines[l].bus1)}

\* C17: when several lines end up on the same pair of target nodes after
\* the busmap is applied, the simplified network holds exactly one line for
\* that pair, and its rating is the sum of the merged lines' ratings (100
\* and 150 give 250).
C17_ParallelLinesMerge ==
    [][AggregateStep =>
        \A t, u \in AggSubIds :
            LET grp == {l \in DOMAIN lines : Ends(l) = {t, u}}
                out == {k \in DOMAIN lines' :
                           {lines'[k].bus0, lines'[k].bus1} = {t, u}}
            IN  (t # u /\ grp # {}) =>
                    /\ Cardinality(out) = 1
                    /\ \A k \in out :
                          lines'[k].s_nom =
                              Sum([l \in grp |-> lines[l].s_nom], grp)]_vars

\* Two lines of rating 100 and 150 were read and the clustered network
\* holds a line of rating 250
C17_Witness ==
    /\ spc = "aggregated"
    /\ {in_lines[l].s_nom : l \in DOMAIN in_lines} = {100, 150}
    /\ \E k \in DOMAIN lines : lines[k].s_nom = 250

\* C18: in the simplified network (stage-1 rewriting, then
\* aggregate_to_substations) no line has identical endpoints.
C18_NoSelfLoop ==
    spc = "aggregated" =>
        \A k \in DOMAIN lines : lines[k].bus0 # lines[k].bus1

\* A line was read whose two endpoints the two stages merge, beside one
\* that survives
C18_Witness ==
    /\ spc = "aggregated"
    /\ \E l \in DOMAIN in_lines :
          busmaps[in_lines[l].bus0] = busmaps[in_lines[l].bus1]
    /\ DOMAIN lines # {}

\* The network-wide total of a generator column
Total(gs, col) == Sum([g \in DOMAIN gs |-> gs[g][col]], DOMAIN gs)

MergedInto(k) ==
    {g \in DOMAIN GeneratorsRead :
        /\ MapBus(busmaps, GeneratorsRead[g].bus) = generators[k].bus
        /\ GeneratorsRead[g].carrier = generators[k].carrier}

\* The sum over the generators S of the column col times the capacity
WeightedSum(S, col) ==
    Sum([g \in S |-> GeneratorsRead[g].p_nom * GeneratorsRead[g][col]], S)

\* The sum over the generators S of the column col
ColumnSum(S, col) == Sum([g \in S |-> GeneratorsRead[g][col]], S)

\* C25: a merged generator's marginal_cost, p_min_pu and p_max_pu are the
\* capacity-weighted means of the generators merged into it (mean * total
\* capacity = sum of capacity * value), its capacity and minimum capacity are
\* their sums, and its ramp limits are their maxima.
C25_CapacityWeightedMeans ==
    spc = "aggregated" =>
        \A k \in DOMAIN generators :
            LET S == MergedInto(k) IN
            /\ \A col \in {"marginal_cost", "p_min_pu", "p_max_pu"} :
                  generators[k][col] * ColumnSum(S, "p_nom")
                      = WeightedSum(S, col)
            /\ \A col \in {"p_nom", "p_nom_min"} :
                  generators[k][col] = ColumnSum(S, col)
            /\ \A col \in {"ramp_limit_up", "ramp_limit_down"} :
                  generators[k][col] = Max({GeneratorsRead[g][col] : g \in S})

\* C26: assign_line_lengths and aggregate_to_substations leave the tables
\* they are handed as received: once assign_line_lengths has returned, the
\* site -> substation table has no column beside sub_id, and once
\* aggregate_to_substations has returned, the substation table is the one
\* read from the substation file.
C26_TablesAsReceived ==
    /\ spc \in {"lengths", "aggregated"} => busmap_xy = Unset
    /\ spc = "aggregated" => substations = SubstationTable

\* The generators as read whose node the map m sends to t and whose carrier
\* is c
GeneratorsOf(m, t, c) ==
    {g \in DOMAIN GeneratorsRead :
        /\ m[GeneratorsRead[g].bus] = t
        /\ GeneratorsRead[g].carrier = c}

\* C28: the endpoints are rewritten by the stage-1 map and the aggregation
\* uses the stage-2 map alone, and yet every load, generator and line of
\* every node b of the network as read ends up on the target the composed
\* map assigns to b: after stage 1 it sits on trafo_map[b], the composed map
\* is the stage-2 target of trafo_map[b], and after the aggregation it sits
\* on busmaps[b], each merged generator holding exactly the capacity of the
\* generators the composed map sends there.
C28_ComponentsOnComposedTarget ==
    /\ spc \in {"stage1", "composed", "lengths"} =>
        /\ \A b \in in_buses : loads[b].bus = trafo_map[b]
        /\ \A g \in DOMAIN GeneratorsRead :
              generators[g].bus = trafo_map[GeneratorsRead[g].bus]
        /\ \A l \in DOMAIN in_lines :
              /\ lines[l].bus0 = trafo_map[in_lines[l].bus0]
              /\ lines[l].bus1 = trafo_map[in_lines[l].bus1]
    /\ spc \in {"composed", "lengths", "aggregated"} =>
        \A b \in in_buses : busmaps[b] = busmap_to_sub[trafo_map[b]]
    /\ spc = "aggregated" =>
        /\ DOMAIN buses = {busmaps[b] : b \in in_buses}
        /\ \A b \in in_buses :
              busmaps[b] \in DOMAIN loads /\ loads[busmaps[b]].bus = busmaps[b]
        /\ {loads[t].bus : t \in DOMAIN loads} = {busmaps[b] : b \in in_buses}
        /\ \A g \in DOMAIN GeneratorsRead :
              LET t == busmaps[GeneratorsRead[g].bus]
                  c == GeneratorsRead[g].carrier
              IN  /\ <<t, c>> \in DOMAIN generators
                  /\ generators[<<t, c>>].bus = t
                  /\ generators[<<t, c>>].p_nom
                       = Sum([h \in GeneratorsOf(busmaps, t, c) |->
                                 GeneratorsRead[h].p_nom],
                             GeneratorsOf(busmaps, t, c))
        /\ \A k \in DOMAIN generators :
              GeneratorsOf(busmaps, generators[k].bus, generators[k].carrier) # {}
        /\ \A l \in DOMAIN in_lines :
              busmaps[in_lines[l].bus0] # busmaps[in_lines[l].bus1] =>
                  \E k \in DOMAIN lines :
                      {lines[k].bus0, lines[k].bus1}
                          = {busmaps[in_lines[l].bus0], busmaps[in_lines[l].bus1]}
        /\ \A k \in DOMAIN lines :
              \E l \in DOMAIN in_lines :
                  {lines[k].bus0, lines[k].bus1}
                      = {busmaps[in_lines[l].bus0], busmaps[in_lines[l].bus1]}

\* A node that stage 1 moves to another node, whose own row of the stage-2
\* table names another substation than the composed map
C28_Witness ==
    /\ spc = "aggregated"
    /\ \E b \in in_buses :
          /\ trafo_map[b] # b
          /\ busmap_to_sub[b] # busmaps[b]
          /\ GeneratorsRead[b].carrier = "gas"
          /\ <<busmaps[b], "gas">> \in DOMAIN generators
          /\ <<busmap_to_sub[b], "gas">> \notin DOMAIN generators
    /\ DOMAIN lines # {}

\* The value the substation file holds for a substation
Recorded(t, col) == Column(SubstationTable, t, col)

\* C20: after aggregate_to_substations each target node's coordinate, zone
\* and onshore/offshore connection flags are the values recorded for that
\* substation in the external substation table; none of them is derived
\* from the collapsed nodes or set to a constant.
C20_AllFromSubstationTable ==
    spc = "aggregated" =>
        \A t \in DOMAIN buses :
            /\ buses[t].x = Recorded(t, "lon")
            /\ buses[t].y = Recorded(t, "lat")
            /\ buses[t].country = Recorded(t, "country")
            /\ buses[t].substation_lv = Recorded(t, "substation_lv")
            /\ buses[t].substation_off = Recorded(t, "substation_off")

\* C20 as amended: each target node's coordinate and interconnect label are
\* the values recorded for that substation in the substation table; its two
\* connection flags are the constant True; its zone is the constant "US",
\* or, with use_ba_zones, the zone of the last of the collapsed nodes of
\* that substation in the order of the node table.
C20_CoordinatesFromSubstationTable ==
    [][AggregateStep =>
        \A t \in DOMAIN buses' :
            /\ buses'[t].x = Recorded(t, "lon")
            /\ buses'[t].y = Recorded(t, "lat")
            /\ buses'[t].interconnect = Recorded(t, "interconnect")
            /\ buses'[t].substation_lv = True
            /\ buses'[t].substation_off = True
            /\ IF use_ba_zones
               THEN \E b \in DOMAIN buses :
                       /\ busmap_to_sub[b] = t
                       /\ buses'[t].country = buses[b].country
                       /\ \A c \in DOMAIN buses :
                             busmap_to_sub[c] = t => BusRank(c) <= BusRank(b)
               ELSE buses'[t].country = "US"]_vars

\* With use_ba_zones a substation has collected two nodes of different zones
C20_Witness ==
    /\ spc = "aggregated"
    /\ use_ba_zones
    /\ \E b, c \in Values(trafo_map) :
          /\ busmap_to_sub[b] = busmap_to_sub[c]
          /\ BusZone(b) # BusZone(c)

\* The coordinate the substation file records for the substation of node b
SubstationOf(b) ==
    <<Recorded(busmap_to_sub[b], "lon"), Recorded(busmap_to_sub[b], "lat")>>

\* The great-circle distance between the substations of the two ends of a
\* branch, times the factor 1.25 of the call at line 142
ExpectedLength(row) ==
    [haversine_pts |-> {SubstationOf(row.bus0), SubstationOf(row.bus1)},
     times |-> 125]

\* C21: after assign_line_lengths is called with a busmap and a substation
\* table, every line's and every link's length is the great-circle distance
\* between the substation coordinates of its two endpoints, multiplied by
\* the length factor passed to the call.
C21_LengthsFromSubstations ==
    spc = "lengths" =>
        /\ \A l \in DOMAIN lines : lines[l].length = ExpectedLength(lines[l])
        /\ \A k \in DOMAIN links : links[k].length = ExpectedLength(links[k])

\* Lengths were assigned to a line and to a link whose ends lie in two
\* different substations
C21_Witness ==
    /\ spc = "lengths"
    /\ \E l \in DOMAIN lines :
          busmap_to_sub[lines[l].bus0] # busmap_to_sub[lines[l].bus1]
    /\ \E k \in DOMAIN links :
          busmap_to_sub[links[k].bus0] # busmap_to_sub[links[k].bus1]

----------------------------------------------------------------------------
(* Claims about voronoi_partition_pts, checked under SpecVoronoi *)

\* The call has ended, by a return or by an exception
VoronoiEnded == vpc \in {"returned", "failed"}

\* C11: a call with exactly one coordinate returns a sequence of length one
\* whose single geometry is the outline itself, unmodified, whether or not
\* the coordinate lies inside the outline.
C11_OnePointGetsOutline ==
    (VoronoiEnded /\ Len(points) = 1) =>
        /\ vpc = "returned"
        /\ Len(polygons) = 1
        /\ polygons[1] = Geom(outline)

\* A call with one coordinate outside the outline has returned
C11_Witness ==
    /\ vpc = "returned"
    /\ Len(points) = 1
    /\ points[1] \notin Geom(outline)

\* C12: for every non-empty sequence of N unique coordinates the call
\* returns exactly N geometries, the i-th being the clipped cell of the i-th
\* input coordinate.
C12_OneCellPerPointInOrder ==
    (VoronoiEnded /\ Len(points) >= 1) =>
        /\ vpc = "returned"
        /\ Len(polygons) = Len(points)
        /\ \A i \in DOMAIN points :
              polygons[i] = Cell(points, i) \cap Geom(outline)

\* C13: for every outline and every set of at least one coordinate the
\* returned cells together cover the outline, and two distinct cells have an
\* intersection of zero area.
C13_CellsPartitionOutline ==
    (VoronoiEnded /\ Len(points) >= 1) =>
        /\ vpc = "returned"
        /\ Geom(outline) \subseteq UNION {polygons[i] : i \in DOMAIN polygons}
        /\ \A i, j \in DOMAIN polygons :
              i # j => Area(polygons[i] \cap polygons[j]) = 0

\* Scenario A: the coordinates (0,0) and (2,0) in the square outline with
\* the corners (-5,-5) and (5,5)
ScenarioA ==
    /\ points = << <<0, 0>>, <<2, 0>> >>
    /\ outline = [x0 |-> -5, x1 |-> 5, y0 |-> -5, y1 |-> 5]

\* C14: in Scenario A the call returns two cells separated by the vertical
\* line x = 1 whose combined area is 50.
C14_ScenarioA ==
    (ScenarioA /\ VoronoiEnded) =>
        /\ vpc = "returned"
        /\ Len(polygons) = 2
        /\ polygons[1] = {s \in Geom(outline) : s[1] <= 1}
        /\ polygons[2] = {s \in Geom(outline) : s[1] >= 1}
        /\ Area(polygons[1]) + Area(polygons[2]) = 50

\* C22: for every input of at least two unique coordinates the four guard
\* points are pairwise distinct and lie strictly outside the coordinates'
\* bounding box in both axes, so the rectangle they span strictly contains
\* every input coordinate, also when all coordinates share one x or one y.
C22_GuardsStrictlyOutside ==
    (vpc # "call" /\ Len(points) >= 2) =>
        LET g == Guards(points) IN
        /\ \A i, j \in DOMAIN g : i # j => g[i] # g[j]
        /\ \A i \in DOMAIN points :
              /\ g[1][1] < points[i][1] /\ points[i][1] < g[4][1]
              /\ g[1][2] < points[i][2] /\ points[i][2] < g[4][2]

----------------------------------------------------------------------------
(* Further claims about build_bus_regions.py, checked under SpecRegions *)

\* C23: a run of region assembly in authority mode reaches completion or
\* failure on its own: no step of the loop over the authorities suspends the
\* run waiting for interactive or external input.
C23_NeverSuspended == rpc # "pdb"

\* C29: authority mode never adds a node: the node ids of the exported
\* network are a subset of the node ids of the network read, also when no
\* node has the hard-coded id.
C29_NoNodeAdded ==
    (use_ba /\ out_network.written) =>
        DOMAIN out_network.buses \subseteq in_nodes

\* The rows of the two region outputs
RegionRows == {x[2] : x \in out_onshore.rows \cup OffshoreOutput}

\* C30: in authority mode, every region written to the onshore or offshore
\* output belongs to a node of the exported network, and the region's zone
\* label is the zone the exported network records for that node.
C30_RegionZoneIsNodeZone ==
    (use_ba /\ rpc = "done") =>
        \A r \in RegionRows :
            /\ r.name \in DOMAIN out_network.buses
            /\ out_network.buses[r.name].country = r.country

----------------------------------------------------------------------------
(* Claims about simplify_network_to_voltage_level, checked under SpecVoltage *)

\* The line as read had another voltage than the nominal one
Differed(l) == in_lines[l].v_nom # VoltageLevel

\* C24 (as stated): after voltage harmonization every line is at the nominal
\* voltage, and for each line whose voltage differed both the parallel-line
\* count and the thermal rating are those read times (old voltage / nominal
\* voltage) squared.
C24_RatingScaledBySquare ==
    spc = "stage1" =>
        \A l \in DOMAIN lines :
            /\ lines[l].v_nom = VoltageLevel
            /\ Differed(l) =>
                /\ lines[l].num_parallel * VoltageLevel * VoltageLevel
                     = in_lines[l].num_parallel * in_lines[l].v_nom
                         * in_lines[l].v_nom
                /\ lines[l].s_nom * VoltageLevel * VoltageLevel
                     = in_lines[l].s_nom * in_lines[l].v_nom * in_lines[l].v_nom

\* C24 (amended): after voltage harmonization every line is at the nominal
\* voltage; for each line whose voltage differed the parallel-line count is
\* the one read times (old voltage / nominal voltage) squared, the type is
\* the type of the lines read at the nominal voltage, and the thermal rating
\* is computed afresh as sqrt(3) * rated current of that type * nominal
\* voltage * new parallel-line count; a line read at the nominal voltage
\* keeps count, type and rating.
C24_RatingRecomputed ==
    spc = "stage1" =>
        \A l \in DOMAIN lines :
            /\ lines[l].v_nom = VoltageLevel
            /\ Differed(l) =>
                /\ lines[l].num_parallel * VoltageLevel * VoltageLevel
                     = in_lines[l].num_parallel * in_lines[l].v_nom
                         * in_lines[l].v_nom
                /\ \E k \in DOMAIN in_lines :
                      /\ ~Differed(k)
                      /\ lines[l].type = in_lines[k].type
                /\ lines[l].s_nom
                     = line_types[lines[l].type].i_nom * VoltageLevel
                         * lines[l].num_parallel
            /\ ~Differed(l) =>
                /\ lines[l].num_parallel = in_lines[l].num_parallel
                /\ lines[l].type = in_lines[l].type
                /\ lines[l].s_nom = in_lines[l].s_nom

C24_Witness ==
    /\ spc = "stage1"
    /\ \E l \in DOMAIN lines :
          /\ Differed(l)
          /\ lines[l].num_parallel # in_lines[l].num_parallel
          /\ lines[l].type # in_lines[l].type

=============================================================================
